---- MODULE Spec2Model ----
(***************************************************************************)
(* calculate_mpi of EDKOMANU/MPI_Python (src/MPI.py, with the alternative  *)
(* analysis tail of src/MPI_contributions.py) as a state machine: one call *)
(* of the function, its arguments fixed in Init, its local variables and   *)
(* the files it writes as the state, and one action per block of the body. *)
(*                                                                         *)
(* Numbers.  Weights, scores and the threshold are fixed-point integers in *)
(* units of 1/SCALE (SCALE stands for 1.0); H, A, MPI, prevalences and     *)
(* contributions are exact rationals <<numerator, denominator>> in lowest  *)
(* terms.  Arithmetic is exact: the rounding of IEEE doubles is not        *)
(* modelled.  The table has at least one row and holds only 0 and 1.       *)
(***************************************************************************)
EXTENDS Integers, Sequences, FiniteSets, TLC

\* ------------------------------------------------------------------ bounds
MaxRows == 2
MaxPerDomain == 2

\* ------------------------------------------------------- fixed-point units
SCALE == 60 * 100000
HALF == SCALE \div 2
THIRD == SCALE \div 3
\* atol=0.001 of both np.isclose calls of src/MPI.py
ATOL == SCALE \div 1000
\* numpy's default rtol=1e-05, as its inverse
RTOL_INV == 100000
\* numpy's default atol=1e-08 times RTOL_INV, in units of 1/SCALE: 1e-8 * 6e6 * 1e5
ATOL8_TIMES_RTOL_INV == SCALE \div 1000

\* ----------------------------------------------------------------- helpers
Abs(x) == IF x < 0 THEN -x ELSE x

RECURSIVE SeqSum(_)
SeqSum(s) == IF s = <<>> THEN 0 ELSE Head(s) + SeqSum(Tail(s))

RECURSIVE Flatten(_)
Flatten(ss) == IF ss = <<>> THEN <<>> ELSE Head(ss) \o Flatten(Tail(ss))

Range(s) == {s[i] : i \in DOMAIN s}

RECURSIVE GCD(_, _)
GCD(a, b) == IF b = 0 THEN a ELSE GCD(b, a % b)

\* the rational n/d (d > 0) in lowest terms
Rat(n, d) ==
  LET g == GCD(Abs(n), d) IN IF n = 0 THEN <<0, 1>> ELSE <<n \div g, d \div g>>

RatMul(x, y) ==
  LET g1 == GCD(Abs(x[1]), y[2])
      g2 == GCD(Abs(y[1]), x[2])
  IN IF x[1] = 0 \/ y[1] = 0 THEN <<0, 1>>
     ELSE <<(x[1] \div g1) * (y[1] \div g2), (x[2] \div g2) * (y[2] \div g1)>>

RatAdd(x, y) ==
  LET g == GCD(x[2], y[2])
  IN Rat(x[1] * (y[2] \div g) + y[1] * (x[2] \div g), (x[2] \div g) * y[2])

\* x / y for y > 0
RatDiv(x, y) == RatMul(x, <<y[2], y[1]>>)

\* np.isclose(a, b, atol=atol): |a - b| <= atol + rtol * |b|, on fixed-point integers
IsClose(a, b, atol) == Abs(a - b) <= atol + (Abs(b) \div RTOL_INV)

\* np.isclose(x, y) with the default tolerances, on rationals in units of 1/SCALE
IsCloseDefault(x, y) ==
  LET dn == Abs(x[1] * y[2] - y[1] * x[2])
      L  == x[2] * y[2]
  IN  dn * y[2] <= (ATOL8_TIMES_RTOL_INV * L * y[2] + Abs(y[1]) * L) \div RTOL_INV

\* dict.get(k, default)
Get(d, k, default) == IF k \in DOMAIN d THEN d[k] ELSE default

\* an optional dict argument: None, or a dict (given) with its entries (map)
NoneDict == [given |-> FALSE, map |-> <<>>]
Dict(m) == [given |-> TRUE, map |-> m]
\* Python truthiness of an optional dict: None and {} are both falsy
Truthy(w) == w.given /\ DOMAIN w.map # {}

NonePath == "None"
NoError == [type |-> "None", at |-> "", domain |-> ""]
ValueError(at, domain) == [type |-> "ValueError", at |-> at, domain |-> domain]
KeyError(at) == [type |-> "KeyError", at |-> at, domain |-> ""]

\* ------------------------------------------------------------------ inputs
IndNames == {"a", "b"}
DomainNames == {"D1", "D2"}
Binary == {0, 1}

\* lists of indicator names, as a domain of `dimensions` holds them
IndicatorLists == UNION {[1..n -> IndNames] : n \in 0..MaxPerDomain}

Domain(name, indicators) == [name |-> name, indicators |-> indicators]

\* `dimensions`: a dict in insertion order, as a sequence of (domain, indicator list)
DimensionsSet ==
  {<<>>}
  \cup {<<Domain("D1", l)>> : l \in IndicatorLists}
  \cup {<<Domain("D1", l1), Domain("D2", l2)>> : l1 \in IndicatorLists, l2 \in IndicatorLists}

\* the table read from data_path: its columns and its rows of 0/1 values
TablesOver(cols) ==
  {[columns |-> cols, rows |-> r] : r \in UNION {[1..n -> [cols -> Binary]] : n \in 1..MaxRows}}
Tables == TablesOver({"a"}) \cup TablesOver({"a", "b"})

DictsOver(keys, vals) == {Dict(m) : m \in UNION {[S -> vals] : S \in SUBSET keys}}

\* weights around the tolerance of the checks: 0.5 + 0.001 + 0.000005 differs from 0.5
\* by more than atol and by no more than atol + rtol * 0.501005.  Every weight of the
\* model is a multiple of 6/SCALE, so that weight / len(indicators) is exact for the
\* list lengths of the model, as 1/total_indicators is
JustPastAtol == HALF + ATOL + (HALF \div RTOL_INV)
WeightsFine == {0, HALF, JustPastAtol, SCALE}

DataPath == [root |-> "data", ext |-> ".csv"]
\* os.path.splitext(path)
Splitext(path) == <<path.root, path.ext>>

\* ------------------------------------------------------------------- state
VARIABLES
  args,               \* the arguments of the call, never changed
  pc,                 \* position in the body: start, loaded, resolved, validated,
                      \*   scored, saved, done, raised
  domain_weights,     \* local domain_weights (reassigned in cases 3 and 4)
  indicator_weights,  \* local indicator_weights (reassigned in cases 2 and 4)
  score,              \* df['Deprivation_Score'], one entry per row
  is_poor,            \* df['Is_Poor'], one entry per row
  H, A, MPI,          \* the statistics, rationals
  output_path,        \* local output_path (reassigned at the first save)
  files,              \* the paths written with df.to_csv, in order
  analysis,           \* the analysis part of the returned dict
  error               \* the exception that ended the call, if any

vars == <<args, pc, domain_weights, indicator_weights, score, is_poor, H, A, MPI,
          output_path, files, analysis, error>>

NoAnalysis == [variant |-> "", deprivation |-> <<>>, contributions |-> <<>>]

Locals(a) ==
  /\ args = a
  /\ pc = "start"
  /\ domain_weights = a.domain_weights
  /\ indicator_weights = a.indicator_weights
  /\ score = <<>>
  /\ is_poor = <<>>
  /\ H = <<0, 1>>
  /\ A = <<0, 1>>
  /\ MPI = <<0, 1>>
  /\ output_path = a.output_path
  /\ files = <<>>
  /\ analysis = NoAnalysis
  /\ error = NoError

Args(table, dims, dw, iw, threshold, out) ==
  [data_path |-> DataPath, table |-> table, dimensions |-> dims, domain_weights |-> dw,
   indicator_weights |-> iw, poverty_threshold |-> threshold, output_path |-> out]

TwoRowTable == [columns |-> {"a", "b"}, rows |-> <<[a |-> 1, b |-> 0], [a |-> 1, b |-> 1]>>]

\* calls that vary the weights finely, on one table with the default threshold
InitWeights ==
  \E dims \in DimensionsSet,
     dw \in {NoneDict} \cup DictsOver(DomainNames, WeightsFine),
     iw \in {NoneDict} \cup DictsOver(IndNames, WeightsFine) :
    Locals(Args(TwoRowTable, dims, dw, iw, THIRD, NonePath))

\* dimensions naming at most MaxPerDomain indicators in all
SmallDimensions ==
  {d \in DimensionsSet : Len(Flatten([i \in DOMAIN d |-> d[i].indicators])) <= MaxPerDomain}

\* calls that vary the table, the threshold and the output path, with round weights
InitTables ==
  \E table \in Tables, dims \in SmallDimensions,
     dw \in {NoneDict, Dict([D1 |-> SCALE]), Dict([D1 |-> HALF, D2 |-> HALF])},
     iw \in {NoneDict, Dict([a |-> SCALE]), Dict([a |-> HALF, b |-> HALF]),
             Dict([a |-> SCALE, b |-> HALF])},
     threshold \in {0, HALF},
     out \in {NonePath, "", "results.csv"} :
    Locals(Args(table, dims, dw, iw, threshold, out))

Init == InitWeights \/ InitTables

\* ------------------------------------------------- the body of calculate_mpi
\* all_indicators = [ind for d in dimensions.values() for ind in d]
AllIndicators(dims) == Flatten([i \in DOMAIN dims |-> dims[i].indicators])

\* sum(indicator_weights.get(ind, 0) for ind in indicators)
IndicatorTotal(iw, indicators) ==
  SeqSum([i \in DOMAIN indicators |-> Get(iw.map, indicators[i], 0)])

\* a variant of Aligned that skips a domain without an entry in domain_weights
AlignedSkipsMissingEntry(dw, iw, d) ==
  d.name \notin DOMAIN dw.map
    \/ IsClose(dw.map[d.name], IndicatorTotal(iw, d.indicators), ATOL)

\* the test of case 1 on one domain: np.isclose(domain_total, indicator_total, atol=0.001)
Aligned(dw, iw, d) ==
  IsClose(Get(dw.map, d.name, 0), IndicatorTotal(iw, d.indicators), ATOL)

\* the positions of the domains on which the loop of case 1 would raise
MismatchedDomains(dims, dw, iw) == {i \in DOMAIN dims : ~Aligned(dw, iw, dims[i])}

\* the positions of the domains on which the loop of case 2 would raise
EmptyDomains(dims) == {i \in DOMAIN dims : Len(dims[i].indicators) = 0}

Min(S) == CHOOSE x \in S : \A y \in S : x <= y
Max(S) == CHOOSE x \in S : \A y \in S : x >= y

\* case 2: every indicator gets weight / len(indicators) of its domain; a later
\* domain listing the same indicator overwrites the entry
SpreadDomainWeights(dims, dw) ==
  LET all == AllIndicators(dims)
      last(ind) == Max({i \in DOMAIN dims : ind \in Range(dims[i].indicators)})
  IN Dict([ind \in Range(all) |->
            Get(dw.map, dims[last(ind)].name, 0) \div Len(dims[last(ind)].indicators)])

\* cases 3 and 4: domain_weights[domain] = sum of the weights of its indicators
DeriveDomainWeights(dims, iw) ==
  Dict([name \in {dims[i].name : i \in DOMAIN dims} |->
         LET i == CHOOSE j \in DOMAIN dims : dims[j].name = name
         IN IndicatorTotal(iw, dims[i].indicators)])

\* a variant of EqualWeights that divides by the number of distinct indicators
EqualWeightsOverDistinct(dims) ==
  LET all == AllIndicators(dims)
  IN Dict([ind \in Range(all) |-> SCALE \div Cardinality(Range(all))])

\* case 4: {ind: 1/total_indicators for ind in all_indicators}
EqualWeights(dims) ==
  LET all == AllIndicators(dims)
  IN Dict([ind \in Range(all) |-> SCALE \div Len(all)])

\* sum(domain_weights.values())
DomainWeightSum(dw) ==
  LET RECURSIVE SumOver(_)
      SumOver(S) == IF S = {} THEN 0
                    ELSE LET k == CHOOSE k \in S : TRUE IN dw.map[k] + SumOver(S \ {k})
  IN SumOver(DOMAIN dw.map)

Raise(e) ==
  /\ pc' = "raised"
  /\ error' = e

\* lines 31-35: load the table and validate its columns
Load ==
  /\ pc = "start"
  /\ LET missing == Range(AllIndicators(args.dimensions)) \ args.table.columns
     IN IF missing # {}
        THEN Raise(ValueError("missing_columns", ""))
        ELSE pc' = "loaded" /\ error' = error
  /\ UNCHANGED <<args, domain_weights, indicator_weights, score, is_poor, H, A, MPI,
                 output_path, files, analysis>>

\* lines 38-71: the four weight cases
ResolveWeights ==
  /\ pc = "loaded"
  /\ LET dims == args.dimensions
         ok(dw, iw) == /\ pc' = "resolved"
                       /\ error' = error
                       /\ domain_weights' = dw
                       /\ indicator_weights' = iw
         fail(e) == Raise(e) /\ UNCHANGED <<domain_weights, indicator_weights>>
     IN CASE Truthy(domain_weights) /\ Truthy(indicator_weights) ->
               LET bad == MismatchedDomains(dims, domain_weights, indicator_weights)
               IN IF bad # {}
                  THEN fail(ValueError("weight_mismatch", dims[Min(bad)].name))
                  ELSE ok(domain_weights, indicator_weights)
          [] Truthy(domain_weights) /\ ~Truthy(indicator_weights) ->
               LET bad == EmptyDomains(dims)
               IN IF bad # {}
                  THEN fail(ValueError("empty_domain", dims[Min(bad)].name))
                  ELSE ok(domain_weights, SpreadDomainWeights(dims, domain_weights))
          [] ~Truthy(domain_weights) /\ Truthy(indicator_weights) ->
               ok(DeriveDomainWeights(dims, indicator_weights), indicator_weights)
          [] OTHER ->
               IF Len(AllIndicators(dims)) = 0
               THEN fail(ValueError("no_indicators", ""))
               ELSE ok(DeriveDomainWeights(dims, EqualWeights(dims)), EqualWeights(dims))
  /\ UNCHANGED <<args, score, is_poor, H, A, MPI, output_path, files, analysis>>

\* lines 74-76: np.isclose(sum(domain_weights.values()), 1.0, atol=0.001), under
\* `if domain_weights:`
DomainWeightsValid(dw) == Truthy(dw) => IsClose(DomainWeightSum(dw), SCALE, ATOL)

\* lines 78-81: set(all_indicators) - set(indicator_weights.keys()), under
\* `if indicator_weights:`
MissingIndicators(dims, iw) ==
  IF Truthy(iw) THEN Range(AllIndicators(dims)) \ DOMAIN iw.map ELSE {}

\* lines 73-81: the final validation checks
FinalValidation ==
  /\ pc = "resolved"
  /\ IF ~DomainWeightsValid(domain_weights)
     THEN Raise(ValueError("weight_sum", ""))
     ELSE IF MissingIndicators(args.dimensions, indicator_weights) # {}
          THEN Raise(ValueError("missing_weights", ""))
          ELSE pc' = "validated" /\ error' = error
  /\ UNCHANGED <<args, domain_weights, indicator_weights, score, is_poor, H, A, MPI,
                 output_path, files, analysis>>

\* a variant of RowScore that leaves the weights out
RowScoreUnweighted(row, all, iw) == SeqSum([i \in DOMAIN all |-> row[all[i]] * SCALE])

\* line 85: sum(row[ind] * indicator_weights[ind] for ind in all_indicators)
RowScore(row, all, iw) == SeqSum([i \in DOMAIN all |-> row[all[i]] * iw.map[all[i]]])

\* df[all_indicators] repeats a column for a label listed twice; row[ind] is then a
\* Series, the lambda returns a Series, apply returns a DataFrame of several columns,
\* and pandas refuses to assign it to the single column 'Deprivation_Score'
RepeatsLabel(all) == Cardinality(Range(all)) < Len(all)

\* a variant of IsPoor with a strict comparison
IsPoorStrict(s, threshold) == s > threshold

\* line 89: df['Deprivation_Score'] >= poverty_threshold
IsPoor(s, threshold) == s >= threshold

PoorRows(poor) == {r \in DOMAIN poor : poor[r]}

\* line 91: df['Is_Poor'].mean()
Headcount(poor) == Rat(Cardinality(PoorRows(poor)), Len(poor))

\* df.loc[df['Is_Poor'], 'Deprivation_Score'].mean()
PoorMean(s, poor) ==
  LET RECURSIVE Total(_)
      Total(S) == IF S = {} THEN 0
                  ELSE LET r == CHOOSE r \in S : TRUE IN s[r] + Total(S \ {r})
  IN Rat(Total(PoorRows(poor)), Cardinality(PoorRows(poor)))

\* a variant of Intensity that averages over all rows
IntensityOverAllRows(s, poor) ==
  IF Headcount(poor)[1] > 0 THEN Rat(SeqSum(s), Len(s)) ELSE <<0, 1>>

\* line 92: the mean score of the poor if H > 0 else 0
Intensity(s, poor) == IF Headcount(poor)[1] > 0 THEN PoorMean(s, poor) ELSE <<0, 1>>

\* lines 84-93: scores, classification and the three statistics
Score ==
  /\ pc = "validated"
  /\ LET all == AllIndicators(args.dimensions)
         rows == args.table.rows
         s == [r \in DOMAIN rows |-> RowScore(rows[r], all, indicator_weights)]
         poor == [r \in DOMAIN rows |-> IsPoor(s[r], args.poverty_threshold)]
     IN IF RepeatsLabel(all)
        THEN /\ Raise(ValueError("score_columns", ""))
             /\ UNCHANGED <<score, is_poor, H, A, MPI>>
        ELSE /\ pc' = "scored"
             /\ error' = error
             /\ score' = s
             /\ is_poor' = poor
             /\ H' = Headcount(poor)
             /\ A' = Intensity(s, poor)
             /\ MPI' = RatMul(Headcount(poor), Intensity(s, poor))
  /\ UNCHANGED <<args, domain_weights, indicator_weights, output_path, files, analysis>>

\* a variant of PathOr that always derives the path from data_path
PathAlwaysDerived(path, data_path, suffix) == Splitext(data_path)[1] \o suffix

\* `output_path or os.path.splitext(data_path)[0] + suffix`
PathOr(path, data_path, suffix) ==
  IF path # NonePath /\ path # "" THEN path ELSE Splitext(data_path)[1] \o suffix

\* lines 95-96: the first save
SaveScored ==
  /\ pc = "scored"
  /\ output_path' = PathOr(output_path, args.data_path, "_scored.csv")
  /\ files' = Append(files, output_path')
  /\ pc' = "saved"
  /\ UNCHANGED <<args, domain_weights, indicator_weights, score, is_poor, H, A, MPI,
                 analysis, error>>

\* df[ind].mean() over the rows in S (S not empty)
Prevalence(rows, S, ind) == Rat(Cardinality({r \in S : rows[r][ind] = 1}), Cardinality(S))

\* lines 99-105: the deprivation rate of every indicator of all_indicators
DeprivationProportions(rows, all) ==
  [ind \in Range(all) |-> Prevalence(rows, DOMAIN rows, ind)]

\* the keys of indicator_weights that poor_df[ind] cannot find
UnknownColumns(table, iw) == DOMAIN iw.map \ table.columns

\* H * weight * ind_prevalence, the prevalence being 0 when H is 0
Contribution(rows, poor, weight, ind) ==
  IF Headcount(poor)[1] > 0
  THEN RatMul(RatMul(Headcount(poor), <<weight, 1>>), Prevalence(rows, PoorRows(poor), ind))
  ELSE <<0, 1>>

\* lines 107-125 of MPI.py: one row per key of indicator_weights
ContributionRows(rows, poor, iw, mpi) ==
  [ind \in DOMAIN iw.map |->
    [Weight |-> iw.map[ind],
     Contribution |-> Contribution(rows, poor, iw.map[ind], ind),
     Prevalence_Among_Poor |->
       IF Headcount(poor)[1] > 0 THEN Prevalence(rows, PoorRows(poor), ind) ELSE <<0, 1>>,
     Contribution_Pct |->
       IF mpi[1] > 0
       THEN RatMul(RatDiv(Contribution(rows, poor, iw.map[ind], ind), mpi), <<100, 1>>)
       ELSE <<0, 1>>]]

\* the sum of the contributions of all keys of indicator_weights
RECURSIVE TotalContribution(_, _)
TotalContribution(contrib, S) ==
  IF S = {} THEN <<0, 1>>
  ELSE LET k == CHOOSE k \in S : TRUE
       IN RatAdd(contrib[k].Contribution, TotalContribution(contrib, S \ {k}))

\* lines 130-136 of MPI.py: both analyses, the second save, the return
ContributionAnalysis ==
  /\ pc = "saved"
  /\ LET rows == args.table.rows
         all == AllIndicators(args.dimensions)
     IN IF H[1] > 0 /\ UnknownColumns(args.table, indicator_weights) # {}
        THEN /\ Raise(KeyError("poor_df[ind]"))
             /\ UNCHANGED <<output_path, files, analysis>>
        ELSE /\ analysis' = [variant |-> "MPI.py",
                             deprivation |-> DeprivationProportions(rows, all),
                             contributions |->
                               ContributionRows(rows, is_poor, indicator_weights, MPI)]
             /\ output_path' = PathOr(output_path, args.data_path, "_full_analysis.csv")
             /\ files' = Append(files, output_path')
             /\ pc' = "done"
             /\ error' = error
  /\ UNCHANGED <<args, domain_weights, indicator_weights, score, is_poor, H, A, MPI>>

\* lines 20-39 of MPI_contributions.py, without the final comparison
IndicatorContributionRows(rows, poor, iw) ==
  [ind \in DOMAIN iw.map |->
    [Contribution |-> Contribution(rows, poor, iw.map[ind], ind)]]

\* line 36 of MPI_contributions.py: np.isclose(total_mpi, H * poor_df[score].mean())
ContributionsAddUp(contrib, s, poor) ==
  IsCloseDefault(TotalContribution(contrib, DOMAIN contrib),
                 RatMul(Headcount(poor), PoorMean(s, poor)))

\* lines 44-50 of MPI_contributions.py: the analyses of that variant of the tail, the
\* second save, the return
IndicatorContributions ==
  /\ pc = "saved"
  /\ LET rows == args.table.rows
         all == AllIndicators(args.dimensions)
         contrib == IndicatorContributionRows(rows, is_poor, indicator_weights)
         return == /\ analysis' = [variant |-> "MPI_contributions.py",
                                   deprivation |-> DeprivationProportions(rows, all),
                                   contributions |-> contrib]
                   /\ output_path' = PathOr(output_path, args.data_path, "_full_analysis.csv")
                   /\ files' = Append(files, output_path')
                   /\ pc' = "done"
                   /\ error' = error
         fail(e) == Raise(e) /\ UNCHANGED <<output_path, files, analysis>>
     IN IF H[1] = 0
        THEN return
        ELSE IF UnknownColumns(args.table, indicator_weights) # {}
             THEN fail(KeyError("poor_df[ind]"))
             ELSE IF ~ContributionsAddUp(contrib, score, is_poor)
                  THEN fail(ValueError("contribution_error", ""))
                  ELSE return
  /\ UNCHANGED <<args, domain_weights, indicator_weights, score, is_poor, H, A, MPI>>

Next ==
  \/ Load
  \/ ResolveWeights
  \/ FinalValidation
  \/ Score
  \/ SaveScored
  \/ ContributionAnalysis
  \/ IndicatorContributions

Spec == Init /\ [][Next]_vars

\* ------------------------------------------------------------------ claims
Returned == pc = "done"
Finished == pc \in {"done", "raised"}
TheRows == args.table.rows
TheIndicators == AllIndicators(args.dimensions)
NumPoor == Cardinality({r \in DOMAIN is_poor : is_poor[r]})

RECURSIVE SetSum(_, _)
SetSum(f, S) ==
  IF S = {} THEN 0 ELSE LET k == CHOOSE k \in S : TRUE IN f[k] + SetSum(f, S \ {k})

\* the weighted sum of a row over the distinct indicators of dimensions
WeightedSum(row) ==
  SetSum([ind \in Range(TheIndicators) |-> row[ind] * indicator_weights.map[ind]],
         Range(TheIndicators))

\* C1: on every successful call every row's Deprivation_Score is the sum, over the
\* distinct indicators named in dimensions, of the row's value times the indicator's
\* resolved weight, each indicator counted once.
C1_ScoreIsWeightedSum ==
  Returned =>
    /\ Len(score) = Len(TheRows)
    /\ \A r \in DOMAIN TheRows : score[r] = WeightedSum(TheRows[r])

\* a successful call over two domains where a row deprived in both indicators gets
\* the sum of two positive weights and another row gets less
C1_Witness ==
  /\ Returned
  /\ Len(args.dimensions) = 2
  /\ Len(args.dimensions[1].indicators) = 1
  /\ Len(args.dimensions[2].indicators) = 1
  /\ Range(TheIndicators) = {"a", "b"}
  /\ \E r \in DOMAIN TheRows :
       /\ TheRows[r]["a"] = 1 /\ TheRows[r]["b"] = 1
       /\ score[r] = indicator_weights.map["a"] + indicator_weights.map["b"]
       /\ indicator_weights.map["a"] > 0 /\ indicator_weights.map["b"] > 0
  /\ \E r \in DOMAIN TheRows : score[r] = indicator_weights.map["a"] /\ TheRows[r]["b"] = 0

\* C2: on every successful call a row is poor exactly when its score is at least the
\* threshold (equality is poor), and H is the number of poor rows over the number of
\* rows.
C2_PoorIffAtLeastThreshold ==
  Returned =>
    /\ \A r \in DOMAIN TheRows : is_poor[r] <=> (score[r] >= args.poverty_threshold)
    /\ H[1] * Len(TheRows) = NumPoor * H[2]
    /\ H[2] > 0

\* a successful call with a row scoring exactly the threshold, classified poor, and a
\* row below it, classified not poor
C2_Witness ==
  /\ Returned
  /\ \E r \in DOMAIN TheRows : score[r] = args.poverty_threshold /\ is_poor[r]
  /\ \E r \in DOMAIN TheRows : score[r] < args.poverty_threshold /\ ~is_poor[r]
  /\ H = <<1, 2>>

\* the sum of the scores of the poor rows
PoorScoreSum == SetSum([r \in DOMAIN score |-> IF is_poor[r] THEN score[r] ELSE 0], DOMAIN score)

\* C3: on every successful call A is the mean score of the poor rows when there is
\* one and 0 otherwise, and MPI = H * A: 0 when nobody is poor, otherwise the sum of
\* the poor rows' scores over the number of rows.
C3_IntensityAndMPI ==
  Returned =>
    /\ A[2] > 0 /\ MPI[2] > 0
    /\ IF NumPoor > 0 THEN A[1] * NumPoor = PoorScoreSum * A[2] ELSE A[1] = 0
    /\ MPI[1] * (H[2] * A[2]) = (H[1] * A[1]) * MPI[2]
    /\ IF NumPoor > 0 THEN MPI[1] * Len(TheRows) = PoorScoreSum * MPI[2] ELSE MPI[1] = 0

\* a successful call with a poor and a non-poor row, the poor row scoring more than
\* the non-poor one, whose MPI is positive
C3_Witness ==
  /\ Returned
  /\ NumPoor = 1 /\ Len(TheRows) = 2
  /\ \E r \in DOMAIN TheRows : ~is_poor[r] /\ score[r] > 0
  /\ MPI[1] > 0 /\ A # MPI

\* the sum of the values of the local domain_weights (0 for None and for {})
TheDomainWeightSum == SetSum(domain_weights.map, DOMAIN domain_weights.map)

\* C4, with the tolerance read as np.isclose applies it to 1.0 (0.001 + 0.00001, which
\* is more generous than the 0.001 of the claim): whenever the domain weights (given
\* or derived) do not sum to 1 within the tolerance the call raises a ValueError, and
\* on every successful return they sum to 1 within the tolerance.
C4_DomainWeightsSumToOne ==
  /\ Finished /\ Abs(TheDomainWeightSum - SCALE) > ATOL + (SCALE \div RTOL_INV)
       => pc = "raised" /\ error.type = "ValueError"
  /\ Returned => Abs(TheDomainWeightSum - SCALE) <= ATOL + (SCALE \div RTOL_INV)

BothNonEmpty == Truthy(args.domain_weights) /\ Truthy(args.indicator_weights)
ColumnsPresent == Range(TheIndicators) \subseteq args.table.columns

\* the weight the arguments give to the domain at position i, and the sum of the
\* weights they give to its indicators
GivenDomainWeight(i) == Get(args.domain_weights.map, args.dimensions[i].name, 0)
GivenIndicatorSum(i) ==
  LET l == args.dimensions[i].indicators
  IN SeqSum([j \in DOMAIN l |-> Get(args.indicator_weights.map, l[j], 0)])

\* the domains whose weight differs from the sum of their indicators' weights by more
\* than 0.001
OffByMoreThanAtol ==
  {i \in DOMAIN args.dimensions : Abs(GivenDomainWeight(i) - GivenIndicatorSum(i)) > ATOL}

\* the domains whose weight differs from the sum s of their indicators' weights by more
\* than 0.001 + 0.00001 * |s|
OffByMoreThanTolerance ==
  {i \in DOMAIN args.dimensions :
     LET d == Abs(GivenDomainWeight(i) - GivenIndicatorSum(i))
     IN d > 2 * ATOL \/ d * RTOL_INV > ATOL * RTOL_INV + Abs(GivenIndicatorSum(i))}

\* C5 as stated, any ValueError counting as the error of the claim and an empty dict
\* as not provided: when both weight arguments are provided and some domain's weight
\* differs from the sum of its indicators' weights by more than 0.001, the call raises
\* a ValueError, which names such a domain if it is the mismatch error; a call succeeds
\* only if no domain differs by more than 0.001.
C5_AsStated ==
  BothNonEmpty =>
    /\ Finished /\ OffByMoreThanAtol # {}
         => /\ pc = "raised" /\ error.type = "ValueError"
            /\ error.at = "weight_mismatch"
                 => \E i \in OffByMoreThanAtol : error.domain = args.dimensions[i].name
    /\ Returned => OffByMoreThanAtol = {}

\* C5 amended: when both weight arguments are non-empty dicts and every indicator of
\* dimensions is a column of the table, a call in which some domain's weight differs
\* from the sum s of its indicators' weights by more than 0.001 + 0.00001 * |s| raises
\* a ValueError naming the first such domain of dimensions, and that error is raised
\* in no other call; a call succeeds only if no domain differs by more than that.
C5_Alignment ==
  /\ BothNonEmpty /\ ColumnsPresent /\ Finished /\ OffByMoreThanTolerance # {}
       => /\ pc = "raised"
          /\ error = ValueError("weight_mismatch",
                                args.dimensions[Min(OffByMoreThanTolerance)].name)
  /\ error.at = "weight_mismatch"
       => BothNonEmpty /\ ColumnsPresent /\ OffByMoreThanTolerance # {}
  /\ BothNonEmpty /\ Returned => OffByMoreThanTolerance = {}

\* the call raised the mismatch error naming the second domain, while the first
\* domain's weight is off by more than 0.001 and still within the tolerance
C5_Witness ==
  /\ pc = "raised"
  /\ BothNonEmpty
  /\ Len(args.dimensions) = 2
  /\ error = ValueError("weight_mismatch", "D2")
  /\ 1 \in OffByMoreThanAtol
  /\ OffByMoreThanTolerance = {2}

NeitherGiven == ~Truthy(args.domain_weights) /\ ~Truthy(args.indicator_weights)

\* C6: when neither weight argument is provided, every indicator of dimensions gets
\* the weight 1/n, n the number of indicators listed over all domains, every domain
\* gets the sum of its indicators' weights, the domain weights sum to 1 and the call
\* passes the weight validation; when dimensions lists no indicator a ValueError is
\* raised.
C6_EqualWeighting ==
  NeitherGiven =>
    LET n == Len(TheIndicators)
        dims == args.dimensions
    IN /\ n = 0 /\ pc \notin {"start", "loaded"}
            => pc = "raised" /\ error = ValueError("no_indicators", "")
       /\ n > 0 /\ pc \notin {"start", "loaded"} /\ error.at # "missing_columns"
            => /\ DOMAIN indicator_weights.map = Range(TheIndicators)
               /\ \A ind \in Range(TheIndicators) : indicator_weights.map[ind] * n = SCALE
               /\ DOMAIN domain_weights.map = {dims[i].name : i \in DOMAIN dims}
               /\ \A i \in DOMAIN dims :
                    domain_weights.map[dims[i].name] =
                      SeqSum([j \in DOMAIN dims[i].indicators |->
                               indicator_weights.map[dims[i].indicators[j]]])
               /\ TheDomainWeightSum = SCALE
               /\ error.at \notin {"no_indicators", "weight_sum", "missing_weights"}

\* a successful call without weights over two domains of one indicator each, every
\* indicator weighing one half
C6_Witness ==
  /\ NeitherGiven
  /\ Returned
  /\ Len(args.dimensions) = 2
  /\ Len(TheIndicators) = 2
  /\ Range(TheIndicators) = {"a", "b"}
  /\ indicator_weights.map["a"] = HALF
  /\ domain_weights.map["D2"] = HALF

TheContributions == analysis.contributions
RECURSIVE RatSetSum(_, _)
RatSetSum(f, S) ==
  IF S = {} THEN <<0, 1>>
  ELSE LET k == CHOOSE k \in S : TRUE IN RatAdd(f[k], RatSetSum(f, S \ {k}))

\* the number of poor rows deprived in ind
PoorDeprived(ind) == Cardinality({r \in DOMAIN is_poor : is_poor[r] /\ TheRows[r][ind] = 1})

\* C7: on every successful call each indicator's contribution is H times its weight
\* times the fraction of the poor rows deprived in it (0 when nobody is poor), the
\* contributions of the breakdown sum to MPI, the 'Contribution calculation error' is
\* never raised, and when MPI > 0 the Contribution_Pct values sum to 100.
C7_ContributionsDecomposeMPI ==
  /\ error.at # "contribution_error"
  /\ Returned =>
       /\ \A ind \in DOMAIN TheContributions :
            LET c == TheContributions[ind].Contribution
                w == indicator_weights.map[ind]
            IN IF NumPoor = 0 THEN c[1] = 0
               ELSE c[1] * (H[2] * NumPoor) = (H[1] * w * PoorDeprived(ind)) * c[2]
       /\ RatSetSum([ind \in DOMAIN TheContributions |-> TheContributions[ind].Contribution],
                    DOMAIN TheContributions) = MPI
       /\ analysis.variant = "MPI.py" /\ MPI[1] > 0
            => RatSetSum([ind \in DOMAIN TheContributions |->
                           TheContributions[ind].Contribution_Pct],
                         DOMAIN TheContributions) = <<100, 1>>

\* the path the table is saved to: output_path when it is given and not empty,
\* otherwise data_path with its extension replaced by _scored.csv
ExpectedPath ==
  IF args.output_path \notin {NonePath, ""} THEN args.output_path ELSE "data_scored.csv"

\* the call got past the scoring and the first save
PastFirstSave ==
  \/ pc \in {"saved", "done"}
  \/ pc = "raised" /\ error.at \in {"poor_df[ind]", "contribution_error"}

\* C8 as stated: no call, successful or failing, creates or overwrites a file.
C8_AsStated == files = <<>>

\* C8 amended: a call writes nothing before its scores are computed, so a call that
\* raises in the column validation, the weight validation or the scoring writes no
\* file; a call that gets past the scoring saves the table to output_path when that is
\* given and not empty and otherwise to data_path with its extension replaced by
\* _scored.csv, once if it raises in the analysis and twice if it returns, and writes
\* no other path (never a _full_analysis.csv).
C8_FilesWritten ==
  /\ ~PastFirstSave => files = <<>>
  /\ PastFirstSave /\ pc # "done" => files = <<ExpectedPath>>
  /\ Returned => files = <<ExpectedPath, ExpectedPath>>

\* a successful call without output_path that saved data_scored.csv twice
C8_Witness ==
  /\ Returned
  /\ args.output_path = NonePath
  /\ files = <<"data_scored.csv", "data_scored.csv">>
====
